---- MODULE Spec2Model ----
(***************************************************************************)
(* looker: a viewer for newline-delimited JSON (bunyan) logs.              *)
(*                                                                         *)
(* The model follows src/src/main.rs: option handling in main() (the       *)
(* predicate is compiled, the output format resolved and the minimum level *)
(* parsed, in that order), then the read loop that classifies, filters and *)
(* prints one line at a time.  src/src/tracing.rs contributes the tracing  *)
(* record shape and the conversion of its severities.                      *)
(*                                                                         *)
(* Text is a sequence of one-character strings, so that trimming, case     *)
(* folding, escaping and joining are computed character by character.      *)
(* Option<T> is a sequence of length at most one.                          *)
(***************************************************************************)
EXTENDS Integers, Sequences, FiniteSets, TLC

None == <<>>
Some(x) == <<x>>
IsSome(o) == Len(o) = 1
Unwrap(o) == o[1]

\* The longest input the model reads.
MaxLines == 2

-----------------------------------------------------------------------------
(* Characters and text                                                     *)

RECURSIVE Concat(_)
Concat(ss) == IF ss = <<>> THEN <<>> ELSE Head(ss) \o Concat(Tail(ss))

\* [T]::join(sep)
RECURSIVE Join(_, _)
Join(ss, sep) ==
    IF ss = <<>> THEN <<>>
    ELSE IF Len(ss) = 1 THEN ss[1]
    ELSE ss[1] \o sep \o Join(Tail(ss), sep)

Upper ==
    <<"A", "B", "C", "D", "E", "F", "G", "H", "I", "J", "K", "L", "M",
      "N", "O", "P", "Q", "R", "S", "T", "U", "V", "W", "X", "Y", "Z">>
Lower ==
    <<"a", "b", "c", "d", "e", "f", "g", "h", "i", "j", "k", "l", "m",
      "n", "o", "p", "q", "r", "s", "t", "u", "v", "w", "x", "y", "z">>

\* char::to_ascii_lowercase
ToAsciiLowerChar(c) ==
    IF \E i \in 1..Len(Upper) : Upper[i] = c
    THEN Lower[CHOOSE i \in 1..Len(Upper) : Upper[i] = c]
    ELSE c

to_ascii_lowercase(s) == [i \in 1..Len(s) |-> ToAsciiLowerChar(s[i])]

IsWhitespace(c) == c \in {" ", "\t", "\n", "\r"}

RECURSIVE TrimStart(_)
TrimStart(s) ==
    IF s # <<>> /\ IsWhitespace(Head(s)) THEN TrimStart(Tail(s)) ELSE s

RECURSIVE TrimEnd(_)
TrimEnd(s) ==
    IF s # <<>> /\ IsWhitespace(s[Len(s)])
    THEN TrimEnd(SubSeq(s, 1, Len(s) - 1))
    ELSE s

\* str::trim
trim(s) == TrimEnd(TrimStart(s))

Digits == <<"0", "1", "2", "3", "4", "5", "6", "7", "8", "9">>

RECURSIVE NatText(_)
NatText(n) ==
    IF n < 10 THEN <<Digits[n + 1]>>
    ELSE NatText(n \div 10) \o <<Digits[(n % 10) + 1]>>

\* Display of an integer: format!("{}", n)
IntText(n) == IF n < 0 THEN <<"-">> \o NatText(0 - n) ELSE NatText(n)

\* char::escape_default
EscapeDefault(c) ==
    CASE c = "\t" -> <<"\\", "t">>
      [] c = "\r" -> <<"\\", "r">>
      [] c = "\n" -> <<"\\", "n">>
      [] c = "\\" -> <<"\\", "\\">>
      [] c = "'" -> <<"\\", "'">>
      [] c = "\"" -> <<"\\", "\"">>
      [] OTHER -> <<c>>

-----------------------------------------------------------------------------
(* Level model                                                             *)

BunyanLevel == {"Fatal", "Error", "Warn", "Info", "Debug", "Trace"}

\* The discriminants of #[repr(u8)] enum BunyanLevel
Discriminant(l) ==
    CASE l = "Fatal" -> 60
      [] l = "Error" -> 50
      [] l = "Warn" -> 40
      [] l = "Info" -> 30
      [] l = "Debug" -> 20
      [] l = "Trace" -> 10

\* The variants in the order the enum declares them
DeclOrder == <<"Fatal", "Error", "Warn", "Info", "Debug", "Trace">>

DeclIndex(l) == CHOOSE i \in 1..Len(DeclOrder) : DeclOrder[i] = l

\* A comparison by position in the declaration instead of by discriminant
LevelLtByDeclaration(a, b) == DeclIndex(a) < DeclIndex(b)

\* #[derive(PartialOrd)] on the enum: `a < b` compares the discriminants
LevelLt(a, b) == Discriminant(a) < Discriminant(b)

\* BunyanLevel::render
render(l) ==
    CASE l = "Fatal" -> <<"F", "A", "T", "A">>
      [] l = "Error" -> <<"E", "R", "R", "O">>
      [] l = "Warn" -> <<"W", "A", "R", "N">>
      [] l = "Info" -> <<"I", "N", "F", "O">>
      [] l = "Debug" -> <<"D", "E", "B", "G">>
      [] l = "Trace" -> <<"T", "R", "A", "C">>

\* The match of from_str on a text that is already trimmed and lower-cased
MatchLevel(t) ==
    CASE t \in {<<"6", "0">>, <<"f", "a", "t", "a", "l">>, <<"f", "a", "t", "a">>}
            -> Some("Fatal")
      [] t \in {<<"5", "0">>, <<"e", "r", "r", "o", "r">>, <<"e", "r", "r", "o">>}
            -> Some("Error")
      [] t \in {<<"4", "0">>, <<"w", "a", "r", "n">>} -> Some("Warn")
      [] t \in {<<"3", "0">>, <<"i", "n", "f", "o">>} -> Some("Info")
      [] t \in {<<"2", "0">>, <<"d", "e", "b", "u", "g">>, <<"d", "e", "b", "g">>}
            -> Some("Debug")
      [] t \in {<<"1", "0">>, <<"t", "r", "a", "c", "e">>, <<"t", "r", "a", "c">>}
            -> Some("Trace")
      [] OTHER -> None

\* from_str without the case folding
from_str_case_sensitive(s) == MatchLevel(trim(s))

\* BunyanLevel::from_str: Some(level), or None for the "unknown level" error
from_str(s) == MatchLevel(to_ascii_lowercase(trim(s)))

TracingLevel == {"DEBUG", "ERROR", "INFO", "WARN", "TRACE"}

\* #[serde(rename_all = "UPPERCASE")]: the name of a severity on the wire
TracingText(t) ==
    CASE t = "DEBUG" -> <<"D", "E", "B", "U", "G">>
      [] t = "ERROR" -> <<"E", "R", "R", "O", "R">>
      [] t = "INFO" -> <<"I", "N", "F", "O">>
      [] t = "WARN" -> <<"W", "A", "R", "N">>
      [] t = "TRACE" -> <<"T", "R", "A", "C", "E">>

\* A conversion that sends the most severe tracing level to Fatal
TracingIntoShifted(t) ==
    CASE t = "DEBUG" -> "Debug"
      [] t = "ERROR" -> "Fatal"
      [] t = "INFO" -> "Info"
      [] t = "WARN" -> "Warn"
      [] t = "TRACE" -> "Trace"

\* impl From<TracingLevel> for Level
TracingInto(t) ==
    CASE t = "DEBUG" -> "Debug"
      [] t = "ERROR" -> "Error"
      [] t = "INFO" -> "Info"
      [] t = "WARN" -> "Warn"
      [] t = "TRACE" -> "Trace"

-----------------------------------------------------------------------------
(* JSON values (serde_json::Value) and the sample input lines              *)

JNull == [t |-> "null"]
JBool(b) == [t |-> "bool", b |-> b]
JNum(n) == [t |-> "num", n |-> n]
JStr(s) == [t |-> "str", s |-> s]
JObj(o) == [t |-> "obj", o |-> o]
JArr(a) == [t |-> "arr", a |-> a]

IsNum(v) == v.t = "num"
IsStr(v) == v.t = "str"
IsObj(v) == v.t = "obj"

\* serde_json::Map::get
Get(o, k) == IF k \in DOMAIN o THEN Some(o[k]) ELSE None

Time1 == <<"2", "0", "2", "4", "-", "0", "1", "-", "0", "2", "T",
           "0", "3", ":", "0", "4", ":", "0", "5", "Z">>
Time2 == <<"2", "0", "2", "4", "-", "0", "1", "-", "0", "2", "T",
           "0", "3", ":", "0", "4", ":", "0", "6", ".", "7", "Z">>

\* The input lines the model draws from, as the text read from the input
LNotJson == "not json"
LBadLevel ==
    "{\"v\":0,\"level\":35,\"name\":\"app\",\"hostname\":\"h\",\"pid\":1,\"time\":\"2024-01-02T03:04:05Z\",\"msg\":\"m\"}"
LNoMsg ==
    "{\"v\":0,\"level\":30,\"name\":\"app\",\"hostname\":\"h\",\"pid\":1,\"time\":\"2024-01-02T03:04:05Z\"}"
LVersion1 ==
    "{\"v\":1,\"level\":50,\"name\":\"app\",\"hostname\":\"h\",\"pid\":1,\"time\":\"2024-01-02T03:04:05Z\",\"msg\":\"m\"}"
LInfo ==
    "{\"v\":0,\"level\":30,\"name\":\"app\",\"hostname\":\"h\",\"pid\":1,\"time\":\"2024-01-02T03:04:05Z\",\"msg\":\"first\\nsecond\",\"a\":1,\"b\":2}"
LWarn ==
    "{\"v\":0,\"level\":40,\"name\":\"app\",\"hostname\":\"h\",\"pid\":7,\"time\":\"2024-01-02T03:04:06.7Z\",\"msg\":\"m\",\"component\":\"db\",\"c\":null,\"a\":true}"
LError ==
    "{\"v\":0,\"level\":50,\"name\":\"app\",\"hostname\":\"h\",\"pid\":1,\"time\":\"2024-01-02T03:04:05Z\",\"msg\":\"m\",\"component\":\"x-api\",\"c\":\"q\\\"'\\t\",\"a\":-12}"
LTracing ==
    "{\"timestamp\":\"2024-01-02T03:04:05Z\",\"level\":\"INFO\",\"target\":\"app\",\"fields\":{\"message\":\"m\"}}"

Lines ==
    {LNotJson, LBadLevel, LNoMsg, LVersion1, LInfo, LWarn, LError, LTracing}

App == <<"a", "p", "p">>

\* serde_json::from_str::<Value> on the sample lines: None is a parse error
ParseJson(l) ==
    CASE l = LBadLevel ->
            Some(JObj([v |-> JNum(0), level |-> JNum(35), name |-> JStr(App),
                       hostname |-> JStr(<<"h">>), pid |-> JNum(1),
                       time |-> JStr(Time1), msg |-> JStr(<<"m">>)]))
      [] l = LNoMsg ->
            Some(JObj([v |-> JNum(0), level |-> JNum(30), name |-> JStr(App),
                       hostname |-> JStr(<<"h">>), pid |-> JNum(1),
                       time |-> JStr(Time1)]))
      [] l = LVersion1 ->
            Some(JObj([v |-> JNum(1), level |-> JNum(50), name |-> JStr(App),
                       hostname |-> JStr(<<"h">>), pid |-> JNum(1),
                       time |-> JStr(Time1), msg |-> JStr(<<"m">>)]))
      [] l = LInfo ->
            Some(JObj([v |-> JNum(0), level |-> JNum(30), name |-> JStr(App),
                       hostname |-> JStr(<<"h">>), pid |-> JNum(1),
                       time |-> JStr(Time1),
                       msg |-> JStr(<<"f", "i", "r", "s", "t", "\n",
                                      "s", "e", "c", "o", "n", "d">>),
                       a |-> JNum(1), b |-> JNum(2)]))
      [] l = LWarn ->
            Some(JObj([v |-> JNum(0), level |-> JNum(40), name |-> JStr(App),
                       hostname |-> JStr(<<"h">>), pid |-> JNum(7),
                       time |-> JStr(Time2), msg |-> JStr(<<"m">>),
                       component |-> JStr(<<"d", "b">>),
                       c |-> JNull, a |-> JBool(TRUE)]))
      [] l = LError ->
            Some(JObj([v |-> JNum(0), level |-> JNum(50), name |-> JStr(App),
                       hostname |-> JStr(<<"h">>), pid |-> JNum(1),
                       time |-> JStr(Time1), msg |-> JStr(<<"m">>),
                       component |-> JStr(<<"x", "-", "a", "p", "i">>),
                       c |-> JStr(<<"q", "\"", "'", "\t">>),
                       a |-> JNum(0 - 12)]))
      [] l = LTracing ->
            Some(JObj([timestamp |-> JStr(Time1), level |-> JStr(<<"I", "N", "F", "O">>),
                       target |-> JStr(App),
                       fields |-> JObj([message |-> JStr(<<"m">>)])]))
      [] OTHER -> None

-----------------------------------------------------------------------------
(* Deserialization of the record types                                     *)

IsDigit(c) == \E i \in 1..10 : Digits[i] = c

\* DateTime<Utc> from its text: `YYYY-MM-DDTHH:MM:SS`, an optional fraction, `Z`
IsDateTime(s) ==
    /\ Len(s) >= 20
    /\ \A i \in {1, 2, 3, 4, 6, 7, 9, 10, 12, 13, 15, 16, 18, 19} : IsDigit(s[i])
    /\ s[5] = "-" /\ s[8] = "-" /\ s[11] = "T" /\ s[14] = ":" /\ s[17] = ":"
    /\ s[Len(s)] = "Z"
    /\ Len(s) > 20 =>
          /\ s[20] = "."
          /\ Len(s) > 21
          /\ \A i \in 21..(Len(s) - 1) : IsDigit(s[i])

\* Deserialize_repr for BunyanLevel: the variant with that discriminant, if any
LevelOfRepr(n) ==
    IF \E l \in BunyanLevel : Discriminant(l) = n
    THEN Some(CHOOSE l \in BunyanLevel : Discriminant(l) = n)
    ELSE None

BunyanNamed == {"v", "level", "name", "hostname", "pid", "time", "msg", "component"}

\* Whether a JSON value has the shape #[derive(Deserialize)] BunyanEntry accepts
BunyanShape(j) ==
    /\ IsObj(j)
    /\ {"v", "level", "name", "hostname", "pid", "time", "msg"} \subseteq DOMAIN j.o
    /\ IsNum(j.o.v)
    /\ IsNum(j.o.level) /\ IsSome(LevelOfRepr(j.o.level.n))
    /\ IsStr(j.o.name)
    /\ IsStr(j.o.hostname)
    /\ IsNum(j.o.pid) /\ j.o.pid.n >= 0
    /\ IsStr(j.o.time) /\ IsDateTime(j.o.time.s)
    /\ IsStr(j.o.msg)
    /\ "component" \in DOMAIN j.o => j.o.component.t \in {"str", "null"}

\* serde_json::from_value::<BunyanEntry>: Some(entry), or None for Err
DeserializeBunyan(j) ==
    IF BunyanShape(j)
    THEN Some([v |-> j.o.v.n,
               level |-> Unwrap(LevelOfRepr(j.o.level.n)),
               name |-> j.o.name.s,
               hostname |-> j.o.hostname.s,
               pid |-> j.o.pid.n,
               time |-> j.o.time.s,
               msg |-> j.o.msg.s,
               component |-> IF "component" \in DOMAIN j.o /\ IsStr(j.o.component)
                             THEN Some(j.o.component.s) ELSE None,
               extra |-> [k \in (DOMAIN j.o) \ BunyanNamed |-> j.o[k]]])
    ELSE None

\* Whether a JSON value has the shape #[derive(Deserialize)] Span accepts
SpanShape(v) == IsObj(v) /\ "name" \in DOMAIN v.o /\ IsStr(v.o.name)

\* Whether a JSON value has the shape #[derive(Deserialize)] TracingEntry accepts
TracingShape(j) ==
    /\ IsObj(j)
    /\ {"timestamp", "level", "target", "fields"} \subseteq DOMAIN j.o
    /\ IsStr(j.o.timestamp) /\ IsDateTime(j.o.timestamp.s)
    /\ IsStr(j.o.level)
    /\ \E t \in TracingLevel : j.o.level.s = TracingText(t)
    /\ IsStr(j.o.target)
    /\ IsObj(j.o.fields)
    /\ "message" \in DOMAIN j.o.fields.o
    /\ IsStr(j.o.fields.o.message)
    /\ "span" \in DOMAIN j.o => (j.o.span.t = "null" \/ SpanShape(j.o.span))
    /\ "spans" \in DOMAIN j.o =>
          \/ j.o.spans.t = "null"
          \/ /\ j.o.spans.t = "arr"
             /\ \A i \in 1..Len(j.o.spans.a) : SpanShape(j.o.spans.a[i])

\* Span from its JSON object: the name, and every other key in values
DeserializeSpan(v) ==
    [name |-> v.o.name.s, values |-> [k \in (DOMAIN v.o) \ {"name"} |-> v.o[k]]]

\* serde_json::from_value::<TracingEntry>: Some(entry), or None for Err
DeserializeTracing(j) ==
    IF TracingShape(j)
    THEN Some([timestamp |-> j.o.timestamp.s,
               level |-> CHOOSE t \in TracingLevel : j.o.level.s = TracingText(t),
               target |-> j.o.target.s,
               fields |->
                   [message |-> j.o.fields.o.message.s,
                    values |-> [k \in (DOMAIN j.o.fields.o) \ {"message"} |->
                                  j.o.fields.o[k]]],
               span |-> IF "span" \in DOMAIN j.o /\ IsObj(j.o.span)
                        THEN Some(DeserializeSpan(j.o.span)) ELSE None,
               spans |-> IF "spans" \in DOMAIN j.o /\ j.o.spans.t = "arr"
                         THEN Some([i \in 1..Len(j.o.spans.a) |->
                                      DeserializeSpan(j.o.spans.a[i])])
                         ELSE None])
    ELSE None

-----------------------------------------------------------------------------
(* Rendering                                                               *)

Format == {"Short", "Long", "Bare"}
Colour == {"None", "C16", "C256"}

\* The escape character that starts an ANSI control sequence
ESC == "\\x1b"

Text_null == <<"n", "u", "l", "l">>
Text_true == <<"t", "r", "u", "e">>
Text_false == <<"f", "a", "l", "s", "e">>

\* The String arm of the value match: escape_default on every character but
\* the two quotes
StringText(s) ==
    Concat([i \in 1..Len(s) |->
              IF s[i] # "\"" /\ s[i] # "'" THEN EscapeDefault(s[i]) ELSE <<s[i]>>])

\* The match on serde_json::Value that emit_bare and emit_record share.
\* The Debug text of arrays and objects is left opaque.
ValueText(v) ==
    CASE v.t = "null" -> Text_null
      [] v.t = "bool" -> IF v.b THEN Text_true ELSE Text_false
      [] v.t = "num" -> IntText(v.n)
      [] v.t = "str" -> StringText(v.s)
      [] OTHER -> <<"{:?}">>

\* emit_bare that leaves out the lookups the record does not have
emit_bare_skip_absent(j, lookups) ==
    LET present == SelectSeq(lookups, LAMBDA l : l \in DOMAIN j.o)
        outs == [i \in 1..Len(present) |-> ValueText(j.o[present[i]])]
    IN  Join(outs, <<" ">>) \o <<"\n">>

\* emit_bare: the text it prints
emit_bare(j, lookups) ==
    LET o == j.o
        outs == [i \in 1..Len(lookups) |->
                   IF IsSome(Get(o, lookups[i]))
                   THEN ValueText(Unwrap(Get(o, lookups[i])))
                   ELSE <<"-">>]
    IN  Join(outs, <<" ">>) \o <<"\n">>

\* BunyanLevel::ansi_colour
ansi_colour(l, colour) ==
    CASE colour = "None" -> <<>>
      [] colour = "C16" ->
            <<ESC, "[">>
            \o IntText(CASE l = "Fatal" -> 93 [] l = "Error" -> 91
                         [] l = "Warn" -> 95 [] l = "Info" -> 96
                         [] l = "Debug" -> 94 [] l = "Trace" -> 92)
            \o <<"m">>
      [] colour = "C256" ->
            <<ESC, "[", "3", "8", ";", "5", ";">>
            \o IntText(CASE l = "Fatal" -> 190 [] l = "Error" -> 160
                         [] l = "Warn" -> 130 [] l = "Info" -> 28
                         [] l = "Debug" -> 44 [] l = "Trace" -> 69)
            \o <<"m">>

bold(input, colour) ==
    LET fancy == colour # "None"
    IN  (IF fancy THEN <<ESC, "[", "1", "m">> ELSE <<>>)
        \o input
        \o (IF fancy THEN <<ESC, "[", "0", "m">> ELSE <<>>)

\* fn level(bl, colour)
level_label(bl, colour) == bold(ansi_colour(bl, colour) \o render(bl), colour)

\* str::lines: split at "\n", a final empty piece is not a line
RECURSIVE SplitLines(_, _)
SplitLines(s, cur) ==
    IF s = <<>> THEN (IF cur = <<>> THEN <<>> ELSE <<cur>>)
    ELSE IF Head(s) = "\n"
         THEN <<IF cur # <<>> /\ cur[Len(cur)] = "\r"
                THEN SubSeq(cur, 1, Len(cur) - 1) ELSE cur>>
              \o SplitLines(Tail(s), <<>>)
         ELSE SplitLines(Tail(s), Append(cur, Head(s)))

\* The message with its lines joined as they are
IndentMessageFlat(msg) == Join(SplitLines(msg, <<>>), <<"\n">>)

\* The message with its continuation lines indented by four spaces
IndentMessage(msg) ==
    LET ls == SplitLines(msg, <<>>)
    IN  Join([i \in 1..Len(ls) |->
                (IF i > 1 THEN <<" ", " ", " ", " ">> ELSE <<>>) \o ls[i]],
             <<"\n">>)

\* %.3f of chrono: a dot and exactly three digits of the fraction
Millis(time) ==
    LET frac == IF Len(time) > 20 THEN SubSeq(time, 21, Len(time) - 1) ELSE <<>>
    IN  <<".">> \o [i \in 1..3 |-> IF i <= Len(frac) THEN frac[i] ELSE "0"]

\* {:13}: left-aligned in thirteen columns
Pad13(s) == s \o [i \in 1..(IF Len(s) < 13 THEN 13 - Len(s) ELSE 0) |-> " "]

\* The keys of the model's records in the order a BTreeMap iterates them
KeyOrder == <<"a", "b", "c">>

SortedKeys(m) == SelectSeq(KeyOrder, LAMBDA k : k \in DOMAIN m)

Contains(seq, x) == \E i \in 1..Len(seq) : seq[i] = x

\* A field loop that prints every key, whatever the lookups are
FieldDumpAll(extra, colour, lookups) ==
    LET ks == SortedKeys(extra)
    IN  Concat([i \in 1..Len(ks) |->
                  <<" ", " ", " ", " ">> \o bold(<<ks[i]>>, colour)
                  \o <<" ", "=", " ">> \o ValueText(extra[ks[i]]) \o <<"\n">>])

\* The loop over be.extra: one `    key = value` line per printed key
FieldDump(extra, colour, lookups) ==
    LET ks == SelectSeq(SortedKeys(extra),
                        LAMBDA k : ~(lookups # <<>> /\ ~Contains(lookups, k)))
    IN  Concat([i \in 1..Len(ks) |->
                  <<" ", " ", " ", " ">> \o bold(<<ks[i]>>, colour)
                  \o <<" ", "=", " ">> \o ValueText(extra[ks[i]]) \o <<"\n">>])

\* emit_record: the text it prints; in Bare format it panics (unreachable!())
emit_record(be, colour, fmt, lookups) ==
    LET l == level_label(be.level, colour)
        n == bold(be.name, colour)
             \o (IF fmt = "Long" THEN <<"/">> \o IntText(be.pid) ELSE <<>>)
             \o (IF IsSome(be.component) /\ Unwrap(be.component) # be.name
                 THEN <<" ", "(">> \o Unwrap(be.component) \o <<")">>
                 ELSE <<>>)
        msg == IndentMessage(be.msg)
        hms == SubSeq(be.time, 12, 19) \o Millis(be.time) \o <<"Z">>
        header ==
            CASE fmt = "Short" ->
                    Pad13(hms) \o <<" ">> \o l \o <<" ">> \o n \o <<":", " ">>
                    \o msg \o <<"\n">>
              [] fmt = "Long" ->
                    SubSeq(be.time, 1, 10) \o <<" ">> \o hms \o <<" ">> \o l
                    \o <<" ">> \o n \o <<" ", "o", "n", " ">> \o be.hostname
                    \o <<":", " ">> \o msg \o <<"\n">>
    IN  IF fmt = "Bare" THEN None
        ELSE Some(header \o FieldDump(be.extra, colour, lookups))

\* Span::emit_span: one `    prefix::key = value` line per printed key
emit_span(span, prefix, colour, lookups) ==
    LET ks == SelectSeq(SortedKeys(span.values),
                        LAMBDA k : ~(lookups # <<>> /\ ~Contains(lookups, k)))
    IN  Concat([i \in 1..Len(ks) |->
                  <<" ", " ", " ", " ">> \o bold(prefix, colour) \o <<":", ":">>
                  \o bold(<<ks[i]>>, colour)
                  \o <<" ", "=", " ">> \o ValueText(span.values[ks[i]]) \o <<"\n">>])

\* format!("span[{}]", i)
SpanPrefix(i) == <<"s", "p", "a", "n", "[">> \o IntText(i) \o <<"]">>

\* TracingEntry::emit_record: the text it prints; in Bare format it panics
tracing_emit_record(te, colour, fmt, lookups) ==
    LET l == level_label(TracingInto(te.level), colour)
        n == bold(te.target, colour)
        msg == IndentMessage(te.fields.message)
        hms == SubSeq(te.timestamp, 12, 19) \o Millis(te.timestamp) \o <<"Z">>
        header ==
            CASE fmt = "Short" ->
                    Pad13(hms) \o <<" ">> \o l \o <<" ">> \o n \o <<":", " ">>
                    \o msg \o <<"\n">>
              [] fmt = "Long" ->
                    SubSeq(te.timestamp, 1, 10) \o <<" ">> \o hms \o <<" ">> \o l
                    \o <<" ">> \o n \o <<":", " ">> \o msg \o <<"\n">>
        spans == IF IsSome(te.spans) THEN Unwrap(te.spans) ELSE <<>>
    IN  IF fmt = "Bare" THEN None
        ELSE Some(header
                  \o FieldDump(te.fields.values, colour, lookups)
                  \o Concat([i \in 1..Len(spans) |->
                               emit_span(spans[i], SpanPrefix(i - 1), colour,
                                         lookups)]))

-----------------------------------------------------------------------------
(* The predicate: rhai scripts, compiled once and evaluated per record     *)

ScriptTrue == "true"
ScriptOptComponent == "r.component?.contains(\"x\")"
ScriptComponent == "r.component.contains(\"x\")"
ScriptMsg == "r.msg"
ScriptOnce == "let seen = is_def_var(\"mark\"); let mark = true; seen"
ScriptBad == "r.level >="

Scripts ==
    {ScriptTrue, ScriptOptComponent, ScriptComponent, ScriptMsg, ScriptOnce,
     ScriptBad}

\* Engine::compile_into_self_contained: Some(ast), or None for a parse error
Compile(s) == IF s = ScriptBad THEN None ELSE Some(s)

\* Scope::new(): no variable is defined
EmptyScope == [r |-> None, vars |-> {}]

\* filter.scope.set_or_push("r", r): the variable r now holds this record
set_or_push_r(scope, j) == [scope EXCEPT !.r = Some(j)]

DBool(b) == [t |-> "bool", b |-> b]
DUnit == [t |-> "()"]
DString == [t |-> "string"]

\* str.contains(ch)
HasChar(s, ch) == \E i \in 1..Len(s) : s[i] = ch

\* Engine::eval_ast_with_scope on the scope the run keeps: the value (None for
\* a runtime error) and the scope as the script leaves it.  A variable that a
\* script declares at its top level stays in the scope after the evaluation.
eval_ast_with_scope(scope, ast) ==
    LET r == Unwrap(scope.r).o
        component == Get(r, "component")
        hasText == IsSome(component) /\ IsStr(Unwrap(component))
    IN  CASE ast = ScriptTrue -> [value |-> Some(DBool(TRUE)), scope |-> scope]
          [] ast = ScriptOptComponent ->
                [value |-> IF hasText
                           THEN Some(DBool(HasChar(Unwrap(component).s, "x")))
                           ELSE Some(DUnit),
                 scope |-> scope]
          [] ast = ScriptComponent ->
                [value |-> IF hasText
                           THEN Some(DBool(HasChar(Unwrap(component).s, "x")))
                           ELSE None,
                 scope |-> scope]
          [] ast = ScriptMsg -> [value |-> Some(DString), scope |-> scope]
          [] ast = ScriptOnce ->
                [value |-> Some(DBool("mark" \in scope.vars)),
                 scope |-> [scope EXCEPT !.vars = @ \cup {"seen", "mark"}]]

-----------------------------------------------------------------------------
(* main(): the state of a run                                              *)

VARIABLES
    args,     \* the parsed command line: -c, -o, -l and the free arguments
    pc,       \* where main() is
    filter,   \* Option<Filter>: the compiled script and its scope
    format,   \* the resolved Format
    level,    \* Option<BunyanLevel>: the minimum level
    colour,   \* the resolved Colour
    input,    \* the lines read so far; the last one is the loop's `l`
    output,   \* what has been written to standard output, block by block
    log,      \* per handled line: which arm it took and what was evaluated
    lm,       \* scratch of the level operations (used by SpecLevel only)
    rd        \* scratch of the renderers (used by SpecRender only)

vars == <<args, pc, filter, format, level, colour, input, output, log, lm, rd>>

Text_warn == <<"w", "a", "r", "n">>
Text_loud == <<"l", "o", "u", "d">>

ArgC == {None} \cup {Some(s) : s \in Scripts}
ArgO == {None, Some("short"), Some("long"), Some("bare"), Some("json")}
ArgL == {None, Some(Text_warn), Some(Text_loud)}
ArgFree == {<<>>, <<"a", "c">>, <<"c", "b">>}

LmIdle == [op |-> "idle"]
RdIdle == [op |-> "idle"]

Init ==
    /\ args \in [c : ArgC, o : ArgO, l : ArgL, free : ArgFree]
    /\ pc = "parse_filter"
    /\ filter = None
    /\ format = "Short"
    /\ level = None
    /\ colour = "None"
    /\ input = <<>>
    /\ output = <<>>
    /\ log = <<>>
    /\ lm = LmIdle
    /\ rd = RdIdle

\* let mut filter = a.opt_str("c").map(parse_filter).transpose()?
ParseFilter ==
    /\ pc = "parse_filter"
    /\ IF IsSome(args.c) /\ ~IsSome(Compile(Unwrap(args.c)))
       THEN /\ pc' = "failed"
            /\ UNCHANGED filter
       ELSE /\ pc' = "resolve_format"
            /\ filter' = IF IsSome(args.c)
                         THEN Some([ast |-> Unwrap(Compile(Unwrap(args.c))),
                                    scope |-> EmptyScope])
                         ELSE None
    /\ UNCHANGED <<args, format, level, colour, input, output, log, lm, rd>>

\* Bare format is accepted whatever the free arguments are
BareAllowedAlways(lookups) == TRUE

\* if lookups.is_empty() { bail!(...) }
BareAllowed(lookups) == lookups # <<>>

\* let format = match a.opt_str("o").as_deref() { ... }: Some(format), or
\* None when main() ends here (bail!, or the usage message and exit(1))
ResolveFormatOf(o, lookups) ==
    CASE o = None \/ o = Some("short") -> Some("Short")
      [] o = Some("long") -> Some("Long")
      [] o = Some("bare") -> IF BareAllowed(lookups) THEN Some("Bare") ELSE None
      [] OTHER -> None

ResolveFormat ==
    /\ pc = "resolve_format"
    /\ IF IsSome(ResolveFormatOf(args.o, args.free))
       THEN /\ pc' = "parse_level"
            /\ format' = Unwrap(ResolveFormatOf(args.o, args.free))
       ELSE /\ pc' = "failed"
            /\ UNCHANGED format
    /\ UNCHANGED <<args, filter, level, colour, input, output, log, lm, rd>>

\* let level = a.opt_str("l").as_deref().map(BunyanLevel::from_str).transpose()?
ParseLevel ==
    /\ pc = "parse_level"
    /\ IF IsSome(args.l) /\ ~IsSome(from_str(Unwrap(args.l)))
       THEN /\ pc' = "failed"
            /\ UNCHANGED level
       ELSE /\ pc' = "resolve_colour"
            /\ level' = IF IsSome(args.l) THEN from_str(Unwrap(args.l)) ELSE None
    /\ UNCHANGED <<args, filter, format, colour, input, output, log, lm, rd>>

\* The values of TERM the model draws from; None is an unset variable
TermValues == {None, Some("dumb"), Some("xterm"), Some("xterm-256color")}

guess_colour_depth(try_hard, term) ==
    IF IsSome(term)
    THEN IF Unwrap(term) = "xterm-256color" THEN "C256"
         ELSE IF ~try_hard /\ Unwrap(term) = "dumb" THEN "None"
         ELSE "C16"
    ELSE IF try_hard THEN "C16" ELSE "None"

\* let colour = if a.opt_present("N") ... : the flags, whether standard output
\* is a terminal, and TERM are read here
ResolveColour ==
    /\ pc = "resolve_colour"
    /\ \E optN \in BOOLEAN, optC \in BOOLEAN, tty \in BOOLEAN, term \in TermValues :
          colour' = IF optN THEN "None"
                    ELSE IF optC \/ tty THEN guess_colour_depth(optC, term)
                    ELSE "None"
    /\ pc' = "read"
    /\ UNCHANGED <<args, filter, format, level, input, output, log, lm, rd>>

-----------------------------------------------------------------------------
(* main(): the read loop                                                   *)

\* The arm of the two nested matches that a line takes
Classify(l) ==
    LET j == ParseJson(l)
        be == IF IsSome(j) THEN DeserializeBunyan(Unwrap(j)) ELSE None
    IN  IF ~IsSome(j) THEN "ParseFailure"
        ELSE IF ~IsSome(be) THEN "SchemaMismatch"
        ELSE IF Unwrap(be).v = 0 THEN "Accepted"
        ELSE "UnsupportedVersion"

\* A pass-through that only Bare format suppresses
PassThroughDespiteFilter(l, fmt, flt) == IF fmt = "Bare" THEN None ELSE Some(l)

\* The three arms that do not render: `continue` in Bare format or with a
\* filter, println!("{}", l) otherwise
PassThrough(l, fmt, flt) ==
    IF fmt = "Bare" \/ IsSome(flt) THEN None ELSE Some(l)

\* A threshold that also drops the records at the minimum level itself
BelowMinimumInclusive(be, min) ==
    IsSome(min) /\ ~LevelLt(Unwrap(min), be.level)

\* if let Some(level) = &level { if &be.level < level { continue; } }
BelowMinimum(be, min) == IsSome(min) /\ LevelLt(be.level, Unwrap(min))

\* An interpretation that takes () for an error
InterpretUnitAsError(value) ==
    IF ~IsSome(value) THEN "abort"
    ELSE IF Unwrap(value).t = "bool"
         THEN (IF Unwrap(value).b THEN "include" ELSE "exclude")
    ELSE "abort"

\* What the loop does with the outcome of the evaluation: the `?` on a script
\* error, is_unit(), as_bool(), bail!
Interpret(value) ==
    IF ~IsSome(value) THEN "abort"
    ELSE IF Unwrap(value).t = "()" THEN "exclude"
    ELSE IF Unwrap(value).t = "bool"
         THEN (IF Unwrap(value).b THEN "include" ELSE "exclude")
    ELSE "abort"

\* The outcome of the evaluation, as the log names it
ResultTag(value) ==
    IF ~IsSome(value) THEN "error"
    ELSE IF Unwrap(value).t = "bool"
         THEN (IF Unwrap(value).b THEN "true" ELSE "false")
    ELSE IF Unwrap(value).t = "()" THEN "unit"
    ELSE "other"

\* Writing a block before the blocks written so far
WriteFirst(out, block) == <<block>> \o out

\* println!: the block follows everything written before it
Write(out, block) == Append(out, block)

\* A dispatch that hands every record to emit_record
DispatchRecordOnly(fmt) == "emit_record"

\* if matches!(format, Format::Bare) { emit_bare } else { emit_record }
Dispatch(fmt) == IF fmt = "Bare" THEN "emit_bare" ELSE "emit_record"

\* while let Some(l) = lines.next().transpose()? : a line is read
ReadLine ==
    /\ pc = "read"
    /\ Len(input) < MaxLines
    /\ \E l \in Lines : input' = Append(input, l)
    /\ pc' = "handle"
    /\ UNCHANGED <<args, filter, format, level, colour, output, log, lm, rd>>

\* lines.next() is None: the loop ends and main() returns Ok(())
ReadEof ==
    /\ pc = "read"
    /\ pc' = "done"
    /\ UNCHANGED <<args, filter, format, level, colour, input, output, log, lm, rd>>

\* lines.next() is an error: `?` ends main()
ReadError ==
    /\ pc = "read"
    /\ pc' = "io_error"
    /\ UNCHANGED <<args, filter, format, level, colour, input, output, log, lm, rd>>

\* The body of the loop for the line just read
HandleLine ==
    /\ pc = "handle"
    /\ LET n == Len(input)
           l == input[n]
           verdict == Classify(l)
           lookups == args.free
       IN  IF verdict # "Accepted"
           THEN LET pass == PassThrough(l, format, filter)
                IN  /\ output' = IF IsSome(pass)
                                 THEN Write(output, [src |-> n, kind |-> "raw",
                                                     raw |-> Unwrap(pass)])
                                 ELSE output
                    /\ log' = Append(log, [verdict |-> verdict, evaluated |-> FALSE,
                                           result |-> "none",
                                           emitted |-> IsSome(pass)])
                    /\ pc' = "read"
                    /\ UNCHANGED filter
           ELSE LET j == Unwrap(ParseJson(l))
                    be == Unwrap(DeserializeBunyan(j))
                    below == BelowMinimum(be, level)
                    evaluated == ~below /\ IsSome(filter)
                    bound == set_or_push_r(Unwrap(filter).scope, j)
                    ev == eval_ast_with_scope(bound, Unwrap(filter).ast)
                    decision == IF below THEN "exclude"
                                ELSE IF evaluated THEN Interpret(ev.value)
                                ELSE "include"
                    panics == decision = "include"
                              /\ Dispatch(format) = "emit_record"
                              /\ ~IsSome(emit_record(be, colour, format, lookups))
                    text == IF Dispatch(format) = "emit_bare"
                            THEN emit_bare(j, lookups)
                            ELSE Unwrap(emit_record(be, colour, format, lookups))
                    emits == decision = "include" /\ ~panics
                IN  /\ filter' = IF evaluated
                                 THEN Some([Unwrap(filter) EXCEPT !.scope = ev.scope])
                                 ELSE filter
                    /\ output' = IF emits
                                 THEN Write(output,
                                            [src |-> n,
                                             kind |-> IF Dispatch(format) = "emit_bare"
                                                      THEN "bare" ELSE "record",
                                             text |-> text])
                                 ELSE output
                    /\ log' = Append(log,
                                     [verdict |-> verdict, evaluated |-> evaluated,
                                      result |-> IF evaluated THEN ResultTag(ev.value)
                                                 ELSE "none",
                                      emitted |-> emits])
                    /\ pc' = IF decision = "abort" THEN "aborted"
                             ELSE IF panics THEN "panicked"
                             ELSE "read"
    /\ UNCHANGED <<args, level, format, colour, input, lm, rd>>

Next ==
    \/ ParseFilter
    \/ ResolveFormat
    \/ ParseLevel
    \/ ResolveColour
    \/ ReadLine
    \/ ReadEof
    \/ ReadError
    \/ HandleLine

Spec == Init /\ [][Next]_vars

-----------------------------------------------------------------------------
(* The level operations on their own: a text is produced (rendered from a  *)
(* level, written from its numeric code, or typed), parsed as the minimum  *)
(* level, and a record's level is compared with it as the filter does.     *)

\* Texts a user may give to -l
TypedLevels ==
    {<<"I", "n", "f", "o">>, <<" ", "w", "a", "r", "n", "\n">>,
     <<"D", "E", "B", "U", "G">>, <<"f", "a", "t", "a", "l">>,
     <<"e", "r", "r">>, <<"7", "0">>, <<>>, <<"t", "r", "a", "c", "e">>}

InitLevel ==
    /\ args = [c |-> None, o |-> None, l |-> None, free |-> <<>>]
    /\ pc = "parse_filter"
    /\ filter = None
    /\ format = "Short"
    /\ level = None
    /\ colour = "None"
    /\ input = <<>>
    /\ output = <<>>
    /\ log = <<>>
    /\ lm = LmIdle
    /\ rd = RdIdle

\* The four-character mnemonic of a level
LevelRender ==
    /\ lm.op = "idle"
    /\ \E l \in BunyanLevel :
          lm' = [op |-> "text", src |-> "render", l |-> l, text |-> render(l)]
    /\ UNCHANGED <<args, pc, filter, format, level, colour, input, output, log, rd>>

\* The decimal text of a level's numeric code
LevelCode ==
    /\ lm.op = "idle"
    /\ \E l \in BunyanLevel :
          lm' = [op |-> "text", src |-> "code", l |-> l,
                 text |-> IntText(Discriminant(l))]
    /\ UNCHANGED <<args, pc, filter, format, level, colour, input, output, log, rd>>

LevelTyped ==
    /\ lm.op = "idle"
    /\ \E s \in TypedLevels :
          lm' = [op |-> "text", src |-> "typed", l |-> "-", text |-> s]
    /\ UNCHANGED <<args, pc, filter, format, level, colour, input, output, log, rd>>

\* BunyanLevel::from_str on the text
LevelParse ==
    /\ lm.op = "text"
    /\ lm' = [op |-> "parsed", src |-> lm.src, l |-> lm.l, text |-> lm.text,
              parsed |-> from_str(lm.text)]
    /\ UNCHANGED <<args, pc, filter, format, level, colour, input, output, log, rd>>

\* A structured record's level, from its numeric code, against the minimum
LevelCompareBunyan ==
    /\ lm.op = "parsed"
    /\ IsSome(lm.parsed)
    /\ \E n \in {10, 20, 30, 40, 50, 60} :
          lm' = [op |-> "compared", src |-> lm.src, l |-> lm.l, text |-> lm.text,
                 parsed |-> lm.parsed, schema |-> "bunyan",
                 wire |-> IntText(n),
                 rec |-> Unwrap(LevelOfRepr(n)),
                 lt |-> LevelLt(Unwrap(LevelOfRepr(n)), Unwrap(lm.parsed))]
    /\ UNCHANGED <<args, pc, filter, format, level, colour, input, output, log, rd>>

\* A tracing record's level, converted, against the minimum
LevelCompareTracing ==
    /\ lm.op = "parsed"
    /\ IsSome(lm.parsed)
    /\ \E t \in TracingLevel :
          lm' = [op |-> "compared", src |-> lm.src, l |-> lm.l, text |-> lm.text,
                 parsed |-> lm.parsed, schema |-> "tracing",
                 wire |-> TracingText(t),
                 rec |-> TracingInto(t),
                 lt |-> LevelLt(TracingInto(t), Unwrap(lm.parsed))]
    /\ UNCHANGED <<args, pc, filter, format, level, colour, input, output, log, rd>>

NextLevel ==
    \/ LevelRender
    \/ LevelCode
    \/ LevelTyped
    \/ LevelParse
    \/ LevelCompareBunyan
    \/ LevelCompareTracing

SpecLevel == InitLevel /\ [][NextLevel]_vars

-----------------------------------------------------------------------------
(* The renderers on their own: a record of either schema is deserialized   *)
(* from its JSON and printed in a format, with a colour and a lookup list. *)

Msg_m == <<"m">>
Msg_first_second ==
    <<"f", "i", "r", "s", "t", "\n", "s", "e", "c", "o", "n", "d">>
Msg_a__b == <<"a", "\n", "\n", "b">>
Msg_x_ == <<"x", "\n">>

SampleMsgs == {Msg_m, Msg_first_second, Msg_a__b, Msg_x_}

\* Open field mappings: the keys of a record beyond the named ones
SampleFields ==
    {<<>>,
     [b |-> JNum(7)],
     [a |-> JNum(1), b |-> JNum(2)],
     [c |-> JStr(<<"q", "\"", "'", "\t">>), a |-> JBool(TRUE), b |-> JNull]}

SampleLookups == {<<>>, <<"a", "c">>, <<"c", "b">>, <<"b", "msg">>}

\* The `spans` of a tracing record: absent, empty, or two spans
SampleSpans ==
    {None,
     Some(<<>>),
     Some(<<[name |-> JStr(<<"s">>), a |-> JNum(3)],
            [name |-> JStr(<<"t">>), c |-> JNum(4), b |-> JStr(<<"y">>)]>>)}

\* The JSON of a structured record with this message and these extra fields
BunyanJson(msg, extra) ==
    JObj([v |-> JNum(0), level |-> JNum(30), name |-> JStr(App),
          hostname |-> JStr(<<"h">>), pid |-> JNum(1), time |-> JStr(Time2),
          msg |-> JStr(msg)] @@ extra)

\* The `span` of a tracing record: absent, or the current span
SampleSpan == {None, Some([name |-> JStr(<<"t">>), c |-> JNum(4), b |-> JStr(<<"y">>)])}

\* The JSON of a tracing record with this message, these fields and spans
TracingJson(msg, values, span, spans) ==
    JObj([timestamp |-> JStr(Time2), level |-> JStr(TracingText("WARN")),
          target |-> JStr(App),
          fields |-> JObj([message |-> JStr(msg)] @@ values)]
         @@ (IF IsSome(span) THEN [span |-> JObj(Unwrap(span))] ELSE <<>>)
         @@ (IF IsSome(spans)
             THEN [spans |-> JArr([i \in 1..Len(Unwrap(spans)) |->
                                     JObj(Unwrap(spans)[i])])]
             ELSE <<>>))

InitRender ==
    /\ args = [c |-> None, o |-> None, l |-> None, free |-> <<>>]
    /\ pc = "parse_filter"
    /\ filter = None
    /\ format = "Short"
    /\ level = None
    /\ colour = "None"
    /\ input = <<>>
    /\ output = <<>>
    /\ log = <<>>
    /\ lm = LmIdle
    /\ rd = RdIdle

\* A structured record is printed as the loop prints it: emit_bare in Bare
\* format (which needs a lookup), emit_record otherwise
RenderBunyan ==
    /\ rd.op = "idle"
    /\ \E msg \in SampleMsgs, extra \in SampleFields, fmt \in Format,
          col \in Colour, lookups \in SampleLookups :
          LET j == BunyanJson(msg, extra)
              be == Unwrap(DeserializeBunyan(j))
          IN  /\ fmt = "Bare" => BareAllowed(lookups)
              /\ rd' = [op |-> "rendered", schema |-> "bunyan", fmt |-> fmt,
                        colour |-> col, lookups |-> lookups, msg |-> be.msg,
                        fields |-> be.extra, span |-> None, spans |-> <<>>,
                        text |-> IF Dispatch(fmt) = "emit_bare"
                                 THEN emit_bare(j, lookups)
                                 ELSE Unwrap(emit_record(be, col, fmt, lookups))]
    /\ UNCHANGED <<args, pc, filter, format, level, colour, input, output, log, lm>>

\* A tracing record is printed by TracingEntry::emit_record in a format that
\* has a header
RenderTracing ==
    /\ rd.op = "idle"
    /\ \E msg \in SampleMsgs, values \in SampleFields, span \in SampleSpan,
          spans \in SampleSpans, fmt \in {"Short", "Long"}, col \in Colour,
          lookups \in SampleLookups :
          LET j == TracingJson(msg, values, span, spans)
              te == Unwrap(DeserializeTracing(j))
          IN  rd' = [op |-> "rendered", schema |-> "tracing", fmt |-> fmt,
                     colour |-> col, lookups |-> lookups,
                     msg |-> te.fields.message,
                     fields |-> te.fields.values,
                     span |-> te.span,
                     spans |-> IF IsSome(te.spans)
                               THEN [i \in 1..Len(Unwrap(te.spans)) |->
                                       Unwrap(te.spans)[i].values]
                               ELSE <<>>,
                     text |-> Unwrap(tracing_emit_record(te, col, fmt, lookups))]
    /\ UNCHANGED <<args, pc, filter, format, level, colour, input, output, log, lm>>

NextRender ==
    \/ RenderBunyan
    \/ RenderTracing

SpecRender == InitRender /\ [][NextRender]_vars

-----------------------------------------------------------------------------
(* Properties                                                              *)

\* The output blocks that line i of the input produced
BlocksOf(i) == {k \in 1..Len(output) : output[k].src = i}

\* Line i produced exactly one block, and it is a rendering of the record
RenderedOnce(i) ==
    /\ Cardinality(BlocksOf(i)) = 1
    /\ \A k \in BlocksOf(i) : output[k].kind \in {"record", "bare"}

\* The run was ended by the evaluation of the predicate on line i
AbortedAt(i) == pc = "aborted" /\ i = Len(log)

\* C1: a line that is not an accepted record (not JSON, JSON that matches no
\* schema, or a structured record of another version) is written unchanged
\* exactly when the format is not Bare and no predicate is configured, and
\* produces no output otherwise; the minimum level plays no part.
C1_PassThrough ==
    \A i \in 1..Len(log) :
        LET j == ParseJson(input[i])
            notAccepted ==
                \/ ~IsSome(j)
                \/ ~BunyanShape(Unwrap(j))
                \/ Unwrap(j).o.v.n # 0
        IN  notAccepted =>
               IF format # "Bare" /\ args.c = None
               THEN /\ Cardinality(BlocksOf(i)) = 1
                    /\ \A k \in BlocksOf(i) :
                          output[k].kind = "raw" /\ output[k].raw = input[i]
               ELSE BlocksOf(i) = {}

C1_Witness ==
    /\ level = Some("Warn")
    /\ input = <<LVersion1, LNotJson>>
    /\ Len(output) = 2
    /\ output[1].kind = "raw" /\ output[1].raw = LVersion1
    /\ output[2].kind = "raw" /\ output[2].raw = LNotJson

\* The level of the accepted record on line i
RecordLevel(i) == Unwrap(DeserializeBunyan(Unwrap(ParseJson(input[i])))).level

\* C2: with a minimum level, an accepted record strictly below it produces no
\* output and the predicate is not evaluated on it (so it cannot end the run);
\* a record at or above the minimum reaches the predicate, and is rendered
\* when no predicate is configured or the predicate returns true.
C2_LevelThreshold ==
    \A i \in 1..Len(log) :
        (log[i].verdict = "Accepted" /\ IsSome(level)) =>
            IF Discriminant(RecordLevel(i)) < Discriminant(Unwrap(level))
            THEN /\ ~log[i].evaluated
                 /\ BlocksOf(i) = {}
                 /\ ~AbortedAt(i)
            ELSE /\ IsSome(filter) => log[i].evaluated
                 /\ (~IsSome(filter) \/ log[i].result = "true") => RenderedOnce(i)

C2_Witness ==
    /\ level = Some("Warn")
    /\ args.c = Some(ScriptMsg)
    /\ input = <<LInfo, LWarn>>
    /\ Len(log) = 2
    /\ ~log[1].evaluated
    /\ log[2].evaluated
    /\ pc = "aborted"

\* C3: the result of an evaluated predicate decides the outcome: true renders
\* the record; false and () exclude it and the run goes on; any other type
\* and a runtime error end the run at that line: no later line is read, and
\* what earlier lines wrote stays written.
C3_PredicateOutcome ==
    /\ \A i \in 1..Len(log) :
          log[i].evaluated =>
             CASE log[i].result = "true" -> RenderedOnce(i) /\ ~AbortedAt(i)
               [] log[i].result \in {"false", "unit"} ->
                     BlocksOf(i) = {} /\ ~AbortedAt(i)
               [] OTHER ->
                     /\ BlocksOf(i) = {}
                     /\ AbortedAt(i)
                     /\ i = Len(input)
    /\ \A i \in 1..Len(log) :
          (log[i].evaluated /\ args.c = Some(ScriptOptComponent)
                            /\ input[i] = LInfo) => log[i].result = "unit"
    /\ \A i \in 1..Len(log) : log[i].emitted <=> BlocksOf(i) # {}
    /\ pc = "aborted" =>
          /\ Len(log) = Len(input)
          /\ log[Len(log)].evaluated
          /\ log[Len(log)].result \in {"other", "error"}

C3_Witness ==
    /\ pc = "aborted"
    /\ args.c = Some(ScriptComponent)
    /\ input = <<LError, LInfo>>
    /\ log[1].result = "true"
    /\ log[2].result = "error"
    /\ Len(output) = 1
    /\ output[1].src = 1

\* The verdict the classifier is to give a line
ClaimedVerdict(l) ==
    LET j == ParseJson(l)
    IN  IF ~IsSome(j) THEN "ParseFailure"
        ELSE IF TracingShape(Unwrap(j)) THEN "Accepted"
        ELSE IF BunyanShape(Unwrap(j))
             THEN (IF Unwrap(j).o.v.n = 0 THEN "Accepted" ELSE "UnsupportedVersion")
        ELSE "SchemaMismatch"

\* C4: every line gets exactly one verdict: ParseFailure when it is not JSON,
\* Accepted when it matches the structured schema at version 0 or the tracing
\* schema, UnsupportedVersion when the structured schema matched in full at
\* another version, SchemaMismatch when no schema matches; a line of the
\* tracing shape is accepted, filtered and rendered.
C4_Classifier ==
    \A i \in 1..Len(log) :
        /\ log[i].verdict = ClaimedVerdict(input[i])
        /\ (IsSome(ParseJson(input[i]))
            /\ TracingShape(Unwrap(ParseJson(input[i])))
            /\ format # "Bare" /\ args.c = None /\ level = None) => RenderedOnce(i)

\* C5: the output keeps the order of the input: a line writes at most one
\* block, the block of a line is written before the next line is read, and
\* the blocks are those of the lines that were not dropped, in input order.
C5_OrderPreserved ==
    /\ \A k \in 1..Len(output) : output[k].src \in 1..Len(log)
    /\ \A k \in 1..(Len(output) - 1) : output[k].src < output[k + 1].src
    /\ \A i \in 1..Len(log) : log[i].emitted <=> BlocksOf(i) # {}
    /\ \A k \in 1..Len(output) :
          output[k].kind = "raw" => output[k].raw = input[output[k].src]
    /\ Len(log) = IF pc = "handle" THEN Len(input) - 1 ELSE Len(input)

C5_Witness ==
    /\ level = None
    /\ args.c = Some(ScriptOptComponent)
    /\ input = <<LError, LWarn>>
    /\ pc = "handle"
    /\ Len(output) = 1
    /\ output[1].src = 1

\* C6: an invalid level text, a predicate that does not compile, and Bare
\* format without a lookup all end the run before any line is read: nothing
\* is read, classified or written in such a run.
C6_ConfigErrorsFirst ==
    LET invalid ==
            \/ IsSome(args.l) /\ ~IsSome(from_str(Unwrap(args.l)))
            \/ IsSome(args.c) /\ ~IsSome(Compile(Unwrap(args.c)))
            \/ args.o = Some("bare") /\ args.free = <<>>
    IN  (invalid \/ pc = "failed") =>
           /\ input = <<>>
           /\ log = <<>>
           /\ output = <<>>
           /\ pc \in {"parse_filter", "resolve_format", "parse_level", "failed"}

C6_Witness ==
    /\ pc = "failed"
    /\ args.c = Some(ScriptTrue)
    /\ args.o = Some("bare")
    /\ args.free = <<"a", "c">>
    /\ args.l = Some(Text_loud)
    /\ IsSome(filter)
    /\ format = "Bare"

\* C7: the decision for a line depends only on that line and the fixed
\* configuration, never on the lines before it: within a run, two lines with
\* the same text are decided alike.
C7_DecisionIndependent ==
    \A i, k \in 1..Len(log) : input[i] = input[k] => log[i] = log[k]

Text_a_c_LInfo == <<"1", " ", "-", "\n">>
Text_a_c_LWarn == <<"t", "r", "u", "e", " ", "n", "u", "l", "l", "\n">>
Text_a_c_LError == <<"-", "1", "2", " ", "q", "\"", "'", "\\", "t", "\n">>
Text_c_b_LInfo == <<"-", " ", "2", "\n">>
Text_c_b_LWarn == <<"n", "u", "l", "l", " ", "-", "\n">>
Text_c_b_LError == <<"q", "\"", "'", "\\", "t", " ", "-", "\n">>

\* C8: in Bare format a rendered record is one line with one token per
\* lookup, in lookup order, single spaces between them: the scalar text of
\* the value under that name in the raw JSON, or `-` without such a name;
\* the other names of the record add nothing.
C8_BareLine ==
    \A k \in 1..Len(output) :
        output[k].kind = "bare" =>
            LET l == input[output[k].src]
            IN  /\ format = "Bare"
                /\ args.free = <<"a", "c">> =>
                      output[k].text =
                          CASE l = LInfo -> Text_a_c_LInfo
                            [] l = LWarn -> Text_a_c_LWarn
                            [] l = LError -> Text_a_c_LError
                /\ args.free = <<"c", "b">> =>
                      output[k].text =
                          CASE l = LInfo -> Text_c_b_LInfo
                            [] l = LWarn -> Text_c_b_LWarn
                            [] l = LError -> Text_c_b_LError

C8_Witness ==
    /\ format = "Bare"
    /\ args.free = <<"a", "c">>
    /\ input = <<LInfo>>
    /\ Len(output) = 1
    /\ output[1].kind = "bare"
    /\ output[1].text = Text_a_c_LInfo

\* C9: for each of the six levels, parsing the mnemonic that render gives
\* for it, and parsing the decimal text of its numeric code, give the level.
C9_LevelRoundTrip ==
    (lm.op \in {"parsed", "compared"} /\ lm.src \in {"render", "code"}) =>
        lm.parsed = Some(lm.l)

C9_Witness ==
    /\ lm.op = "parsed"
    /\ lm.src = "render"
    /\ lm.l = "Debug"
    /\ lm.text = <<"D", "E", "B", "G">>
    /\ lm.parsed = Some("Debug")

\* Trace < Debug < Info < Warn < Error < Fatal
Ascending == <<"Trace", "Debug", "Info", "Warn", "Error", "Fatal">>

Rank(l) == CHOOSE i \in 1..Len(Ascending) : Ascending[i] = l

\* C10: the comparison of the level filter is the total order
\* Trace < Debug < Info < Warn < Error < Fatal, in agreement with the numeric
\* codes; each tracing severity converts to the level of the same name, and
\* never to Fatal.
C10_LevelOrder ==
    lm.op = "compared" =>
        /\ lm.lt <=> Rank(lm.rec) < Rank(Unwrap(lm.parsed))
        /\ lm.lt <=> Discriminant(lm.rec) < Discriminant(Unwrap(lm.parsed))
        /\ lm.schema = "tracing" =>
              /\ lm.rec # "Fatal"
              /\ to_ascii_lowercase(lm.wire) \in
                    {t \in {<<"e", "r", "r", "o", "r">>, <<"w", "a", "r", "n">>,
                            <<"i", "n", "f", "o">>, <<"d", "e", "b", "u", "g">>,
                            <<"t", "r", "a", "c", "e">>} :
                        MatchLevel(t) = Some(lm.rec)}

C10_Witness ==
    /\ lm.op = "compared"
    /\ lm.schema = "tracing"
    /\ lm.wire = <<"E", "R", "R", "O", "R">>
    /\ lm.rec = "Error"
    /\ lm.parsed = Some("Fatal")
    /\ lm.lt

\* C13: emit_record is never called in Bare format: a record that passed the
\* filters goes to emit_bare when the format is Bare and to emit_record only
\* when it is Short or Long, so the unreachable!() arm is never executed.
C13_NoBareRecord ==
    /\ pc # "panicked"
    /\ \A k \in 1..Len(output) :
          /\ output[k].kind = "bare" => format = "Bare"
          /\ output[k].kind = "record" => format \in {"Short", "Long"}
    /\ \A i \in 1..Len(log) :
          (log[i].verdict = "Accepted" /\ log[i].emitted) =>
              \A k \in BlocksOf(i) :
                  output[k].kind = IF format = "Bare" THEN "bare" ELSE "record"

C13_Witness ==
    /\ format = "Bare"
    /\ args.free = <<"c", "b">>
    /\ args.c = Some(ScriptTrue)
    /\ input = <<LError, LWarn>>
    /\ pc = "read"
    /\ Len(output) = 2
    /\ output[1].kind = "bare" /\ output[2].kind = "bare"

\* The lines of a printed text, each ended by a newline
RECURSIVE OutLines(_)
OutLines(text) ==
    IF text = <<>> THEN <<>>
    ELSE LET n == CHOOSE i \in 1..Len(text) :
                     text[i] = "\n" /\ \A k \in 1..(i - 1) : text[k] # "\n"
         IN  <<SubSeq(text, 1, n - 1)>> \o OutLines(SubSeq(text, n + 1, Len(text)))

EndsWith(s, suffix) ==
    /\ Len(s) >= Len(suffix)
    /\ SubSeq(s, Len(s) - Len(suffix) + 1, Len(s)) = suffix

\* The lines of the sample messages
MsgLines(msg) ==
    CASE msg = Msg_m -> <<<<"m">>>>
      [] msg = Msg_first_second ->
            <<<<"f", "i", "r", "s", "t">>, <<"s", "e", "c", "o", "n", "d">>>>
      [] msg = Msg_a__b -> <<<<"a">>, <<>>, <<"b">>>>
      [] msg = Msg_x_ -> <<<<"x">>>>

\* The printed text starts with the message as the claim lays it out: the
\* first line ends the header line, each later line follows on a line of its
\* own behind four spaces
MessageLaidOut ==
    LET ml == MsgLines(rd.msg)
        lines == OutLines(rd.text)
    IN  /\ Len(lines) >= Len(ml)
        /\ EndsWith(lines[1], <<":", " ">> \o ml[1])
        /\ \A i \in 2..Len(ml) : lines[i] = <<" ", " ", " ", " ">> \o ml[i]

\* C11 (as stated): a message with embedded newlines is printed with its
\* first line on the header line and every later line behind four spaces,
\* for both schemas and in every output format, Bare included.
C11_AllFormats ==
    (rd.op = "rendered" /\ HasChar(rd.msg, "\n")) => MessageLaidOut

\* C11 (amended): a message with embedded newlines is printed with its first
\* line on the header line and every later line behind four spaces, for both
\* schemas, in Short and Long format.
C11_ShortAndLong ==
    (rd.op = "rendered" /\ HasChar(rd.msg, "\n") /\ rd.fmt \in {"Short", "Long"})
        => MessageLaidOut

C11_Witness ==
    /\ rd.op = "rendered"
    /\ rd.schema = "tracing"
    /\ rd.fmt = "Long"
    /\ rd.colour = "None"
    /\ rd.msg = Msg_first_second
    /\ rd.fields = <<>>
    /\ rd.spans = <<>>
    /\ OutLines(rd.text) =
          <<<<"2", "0", "2", "4", "-", "0", "1", "-", "0", "2", " ",
              "0", "3", ":", "0", "4", ":", "0", "6", ".", "7", "0", "0", "Z", " ",
              "W", "A", "R", "N", " ", "a", "p", "p", ":", " ",
              "f", "i", "r", "s", "t">>,
            <<" ", " ", " ", " ", "s", "e", "c", "o", "n", "d">>>>

\* The place of a key in the alphabet
KeyRank(k) == CHOOSE i \in 1..Len(Lower) : Lower[i] = k

\* The keys of a set in ascending order
RECURSIVE Ascending_keys(_)
Ascending_keys(S) ==
    IF S = {} THEN <<>>
    ELSE LET m == CHOOSE k \in S : \A o \in S : KeyRank(k) <= KeyRank(o)
         IN  <<m>> \o Ascending_keys(S \ {m})

\* The lines the claim gives a field mapping: its keys that the lookups let
\* through, ascending, each as `    [prefix::]key = value`
DumpLines(m, prefix) ==
    LET ks == Ascending_keys({k \in DOMAIN m :
                                rd.lookups = <<>> \/ Contains(rd.lookups, k)})
    IN  [i \in 1..Len(ks) |->
           <<" ", " ", " ", " ">>
           \o (IF prefix = <<>> THEN <<>>
               ELSE bold(prefix, rd.colour) \o <<":", ":">>)
           \o bold(<<ks[i]>>, rd.colour) \o <<" ", "=", " ">>
           \o ValueText(m[ks[i]])]

\* C12: in Short and Long format the field dump is one `key = value` line per
\* key of the open field mapping, in ascending key order, a key being printed
\* exactly when the lookup list is empty or contains it; the same holds for
\* the field mapping of each span of a tracing record, printed after it with
\* the prefix `span[i]::` for the span at index i.
C12_FieldDump ==
    (rd.op = "rendered" /\ rd.fmt \in {"Short", "Long"}) =>
        LET lines == OutLines(rd.text)
            first == Len(MsgLines(rd.msg)) + 1
        IN  SubSeq(lines, first, Len(lines)) =
               DumpLines(rd.fields, <<>>)
               \o Concat([i \in 1..Len(rd.spans) |->
                            DumpLines(rd.spans[i],
                                      <<"s", "p", "a", "n", "[">> \o IntText(i - 1)
                                      \o <<"]">>)])

C12_Witness ==
    /\ rd.op = "rendered"
    /\ rd.schema = "tracing"
    /\ rd.fmt = "Short"
    /\ rd.colour = "None"
    /\ rd.msg = Msg_m
    /\ rd.lookups = <<"c", "b">>
    /\ DOMAIN rd.fields = {"a", "b", "c"}
    /\ Len(rd.spans) = 2
    /\ IsSome(rd.span)
    /\ Tail(OutLines(rd.text)) =
          <<<<" ", " ", " ", " ", "b", " ", "=", " ", "n", "u", "l", "l">>,
            <<" ", " ", " ", " ", "c", " ", "=", " ", "q", "\"", "'", "\\", "t">>,
            <<" ", " ", " ", " ", "s", "p", "a", "n", "[", "1", "]", ":", ":",
              "b", " ", "=", " ", "y">>,
            <<" ", " ", " ", " ", "s", "p", "a", "n", "[", "1", "]", ":", ":",
              "c", " ", "=", " ", "4">>>>

====
